---- MODULE Spec2Model ----
(***************************************************************************)
(* Model of terraform/lambda/link_checker_lambda.py: the link verifier     *)
(* (check_link_status), the classification of its outcomes, and the run of *)
(* lambda_handler (crawl, worker pools, report and completion flag).       *)
(*                                                                         *)
(* Strings.  A URL is a record [host, path, page]: host is the netloc,     *)
(* path a label of the rest of the URL and page a number in it.  The       *)
(* substring tests of the code ("hatena" in url, an exclude string in a    *)
(* link, ...) are decided by Contains from the texts of host and path, and *)
(* Python's string order by the ranks of host and path.  None is a value   *)
(* of its own for URLs, messages and status codes.                         *)
(***************************************************************************)
EXTENDS Integers, Sequences, FiniteSets, TLC

\* ------------------------------------------------------------------ bounds
\* longest chain of meta-refresh pages a site serves
MaxChain == 6
\* entries of auto_url_list and manual_url_list together
MaxEntries == 2
\* only the first MaxFetches get_html_content calls of a run may succeed
MaxFetches == 2
\* links one run may hand to the verifier
MaxChecks == 2
\* the manifests of at most this many entries are also run with the pool
\* sizes below MAX_WORKERS
MaxSmallPoolEntries == 1
\* pages of the blog whose pagination is walked in WalkSpec
MaxPages == 3

\* --------------------------------------------------------------- constants
MAX_META_REFRESH_REDIRECTS == 5
SUCCESS_STATUS_LOWER_BOUND == 200
SUCCESS_STATUS_UPPER_BOUND == 400
HTTP_RETRY_STATUS_CODES == {429, 500, 502, 503, 504}
\* os.environ['MAX_WORKERS']
\* read from the environment; the value the runs are configured with (the
\* small manifests: with each value of 1..MAX_WORKERS)
MAX_WORKERS == 2
\* os.environ['EXCLUDE_STRINGS'], os.environ['NG_WORDS'] after the split
exclude_strings == {"tracking"}
ng_words_env == <<"soldout">>

\* ------------------------------------------------------------------ values
\* Python's None as a status code (requests never reports status 0; None and
\* 0 are both falsy on line 228)
NoneCode == 0
\* Python's None as a message
NoneMsg == "<None>"
\* Python's None where a URL is expected
NoneUrl == [host |-> "<None>", path |-> "", page |-> 0]
\* the empty string where a URL is expected ("spreadsheet_link or ''")
EmptyStr == [host |-> "", path |-> "", page |-> 0]

Url(h, p, n) == [host |-> h, path |-> p, page |-> n]

HatenaBlogHost == "blog.hatenablog.com"
LivedoorBlogHost == "news.livedoor.blog"
OtherBlogHost == "example.org"
OtherHatenaHost == "other.hatenablog.com"
ShopHost == "shop.example"
HopHost == "hop.example"
SheetHost == "adsheet.example"
BlockedDomain == "jass-net.com"

\* the needles of the code's substring tests that each text contains
TextContains(text) ==
    CASE text = HatenaBlogHost -> {"hatenablog.com", "hatena"}
      [] text = OtherHatenaHost -> {"hatenablog.com", "hatena"}
      [] text = LivedoorBlogHost -> {"livedoor.blog"}
      [] text = "/hatena-goods" -> {"hatena"}
      [] text = "/aff-tracking" -> {"tracking"}
      [] OTHER -> {}

\* needle in url
Contains(url, needle) ==
    needle \in (TextContains(url.host) \cup TextContains(url.path))

\* urllib.parse.urlparse(url).netloc
Netloc(url) == url.host

\* position of a text in Python's order of str
HostRank(h) ==
    CASE h = "" -> 0
      [] h = SheetHost -> 1
      [] h = HatenaBlogHost -> 2
      [] h = OtherBlogHost -> 3
      [] h = HopHost -> 4
      [] h = BlockedDomain -> 5
      [] h = LivedoorBlogHost -> 6
      [] h = OtherHatenaHost -> 7
      [] h = ShopHost -> 8
      [] OTHER -> 9

PathRank(p) ==
    CASE p = "" -> 0
      [] p = "/" -> 1
      [] p = "/aff" -> 2
      [] p = "/aff-tracking" -> 3
      [] p = "/entry" -> 4
      [] p = "/hatena-goods" -> 5
      [] p = "/hop" -> 6
      [] OTHER -> 7

\* a < b for two str
StrLess(a, b) ==
    \/ HostRank(a.host) < HostRank(b.host)
    \/ /\ a.host = b.host
       /\ \/ PathRank(a.path) < PathRank(b.path)
          \/ a.path = b.path /\ a.page < b.page

\* ------------------------------------------------------ check_link_status
\* What a site serves to the successive fetches of one call: `hops` pages
\* that carry a meta refresh with a url= target, then the page `terminal`.
\* The i-th refresh target, already resolved by urljoin against response.url.
HopUrl(i) == Url(HopHost, "/hop", i)

FinalUrls ==
    { Url(HatenaBlogHost, "/entry", 1), Url(OtherHatenaHost, "/entry", 1),
      Url(BlockedDomain, "/", 1), Url(BlockedDomain, "/hatena-goods", 1),
      Url(ShopHost, "/aff", 1),
      Url(ShopHost, "/hatena-goods", 1) }

PageWords == {"soldout"}

\* kind: plain (no refresh tag), refresh_no_url (refresh tag whose content
\* has no url=), error_status (a 4xx/5xx answer: RetryError once the
\* retries of a status of HTTP_RETRY_STATUS_CODES are used up, otherwise
\* raise_for_status raises HTTPError), timeout (any other RequestException)
TerminalPages ==
    [kind : {"plain"}, status : {200, 304}, url : FinalUrls, words : SUBSET PageWords]
    \cup [kind : {"refresh_no_url"}, status : {200}, url : FinalUrls, words : {{}}]
    \cup [kind : {"error_status"}, status : {404, 503}, url : {Url(ShopHost, "/aff", 1)}, words : {{}}]
    \cup [kind : {"timeout"}, status : {NoneCode}, url : {NoneUrl}, words : {{}}]

Sites == [hops : 0..MaxChain, terminal : TerminalPages]

\* session.get(current_url): the response of the i-th fetch of a call
Get(site, current_url, i) ==
    IF i <= site.hops
    THEN [kind |-> "refresh", status |-> 200, url |-> current_url,
          target |-> HopUrl(i), words |-> {}]
    ELSE [kind |-> site.terminal.kind, status |-> site.terminal.status,
          url |-> site.terminal.url, target |-> NoneUrl,
          words |-> site.terminal.words]

\* bool(response): requests.Response.__bool__ is response.ok, false for the
\* 4xx/5xx responses raise_for_status raises on
ResponseBool(response) == response.status < 400

\* the first word of ng_words found in the page, or NoneMsg
RECURSIVE FirstNgWord(_, _)
FirstNgWord(ng_words, words) ==
    IF ng_words = <<>> THEN NoneMsg
    ELSE IF Head(ng_words) \in words THEN Head(ng_words)
    ELSE FirstNgWord(Tail(ng_words), words)

NgWordMsg(word) == "ng_word in page: " \o word
HttpErrorMsg(status) == "HTTPError " \o ToString(status)
RetryErrorMsg == "RetryError: too many error responses"
TimeoutMsg == "ConnectTimeout"
LimitMsg == "Meta refresh redirect limit exceeded"

CheckResult(code, url, msg, n) ==
    [status_code |-> code, final_url |-> url, error_message |-> msg, fetches |-> n]

\* a loop that takes two turns too many
RefreshLoopBoundTooLong == MAX_META_REFRESH_REDIRECTS + 2

\* the loop bound of check_link_status: range(MAX_META_REFRESH_REDIRECTS)
RefreshLoopBound == MAX_META_REFRESH_REDIRECTS

\* one iteration of the for loop, i fetches done so far; `fetches` counts
\* the session.get calls of the call
RECURSIVE RefreshLoop(_, _, _, _)
RefreshLoop(site, ng_words, current_url, i) ==
    IF i >= RefreshLoopBound
    THEN CheckResult(NoneCode, current_url, LimitMsg, i)
    ELSE LET response == Get(site, current_url, i + 1) IN
         CASE response.kind = "timeout" ->
                CheckResult(NoneCode, current_url, TimeoutMsg, i + 1)
           [] response.kind = "error_status"
                /\ response.status \in HTTP_RETRY_STATUS_CODES ->
                CheckResult(NoneCode, current_url, RetryErrorMsg, i + 1)
           [] response.kind = "error_status"
                /\ response.status \notin HTTP_RETRY_STATUS_CODES ->
                CheckResult(IF ResponseBool(response) THEN response.status ELSE NoneCode,
                            IF ResponseBool(response) THEN response.url ELSE current_url,
                            HttpErrorMsg(response.status), i + 1)
           [] response.kind = "refresh" ->
                RefreshLoop(site, ng_words, response.target, i + 1)
           [] OTHER ->
                LET word == FirstNgWord(ng_words, response.words) IN
                CheckResult(response.status, response.url,
                            IF word # NoneMsg THEN NgWordMsg(word) ELSE NoneMsg, i + 1)

check_link_status(site, url, ng_words) == RefreshLoop(site, ng_words, url, 0)

\* --------------------------------------------------------- classification
StatusCodeMsg(code) == "status code: " \o ToString(code)
DomainBlockMsg == "final domain is 'jass-net.com'"
HatenaMsg == "final url contains 'hatena'"

\* Python truthiness of a message / a status code
Truthy(msg) == msg # NoneMsg /\ msg # ""

is_successful_status(check_result) ==
    /\ check_result.status_code # NoneCode
    /\ SUCCESS_STATUS_LOWER_BOUND <= check_result.status_code
    /\ check_result.status_code < SUCCESS_STATUS_UPPER_BOUND

\* lines 227-229 / 275-277 / 307-309
BaseRule(check_result) ==
    IF ~is_successful_status(check_result) \/ Truthy(check_result.error_message)
    THEN [status |-> "ERROR",
          error_reason |-> IF Truthy(check_result.error_message)
                           THEN check_result.error_message
                           ELSE StatusCodeMsg(check_result.status_code)]
    ELSE [status |-> "OK", error_reason |-> NoneMsg]

\* overlays that lack the platform-escape rule
OverlayNoEscape(base, check_result, origin) ==
    IF base.status = "OK" /\ Netloc(check_result.final_url) = BlockedDomain
    THEN [status |-> "ERROR", error_reason |-> DomainBlockMsg]
    ELSE base

\* overlays with the platform-escape test before the blocked-domain test
OverlayEscapeFirst(base, check_result, origin) ==
    IF base.status # "OK" THEN base
    ELSE IF Contains(check_result.final_url, "hatena")
            /\ Netloc(check_result.final_url) # Netloc(origin)
    THEN [status |-> "ERROR", error_reason |-> HatenaMsg]
    ELSE IF Netloc(check_result.final_url) = BlockedDomain
    THEN [status |-> "ERROR", error_reason |-> DomainBlockMsg]
    ELSE base

\* lines 230-233 / 278-281 / 310-313 (for a manual entry origin is
\* "spreadsheet_link or ''", and the extra conjunct "parsed_blog_url" is a
\* non-empty tuple, always truthy)
Overlay(base, check_result, origin) ==
    IF base.status # "OK" THEN base
    ELSE IF Netloc(check_result.final_url) = BlockedDomain
    THEN [status |-> "ERROR", error_reason |-> DomainBlockMsg]
    ELSE IF Contains(check_result.final_url, "hatena")
            /\ Netloc(check_result.final_url) # Netloc(origin)
    THEN [status |-> "ERROR", error_reason |-> HatenaMsg]
    ELSE base

Classify(check_result, origin) == Overlay(BaseRule(check_result), check_result, origin)

Row(sl, bau, al, status, code, final, msg) ==
    [spreadsheet_link |-> sl, blog_article_url |-> bau, affiliate_link |-> al,
     status |-> status, status_code |-> code, final_url |-> final,
     error_message |-> msg]

\* the record appended on line 235 / 283
AutoRow(blog_url, page_url, link, check_result) ==
    LET c == Classify(check_result, blog_url) IN
    Row(blog_url, page_url, link, c.status, check_result.status_code,
        check_result.final_url, c.error_reason)

\* the record appended on line 315
ManualRow(item, check_result) ==
    LET c == Classify(check_result,
                      IF item.spreadsheet_link = NoneUrl THEN EmptyStr
                      ELSE item.spreadsheet_link) IN
    Row(item.spreadsheet_link, item.blog_article_url, item.affiliate_link,
        c.status, check_result.status_code, check_result.final_url, c.error_reason)

\* the record appended when future.result() raises (lines 238 / 286 / 318)
ExceptionRow(sl, bau, link, msg) ==
    Row(sl, bau, link, "ERROR", NoneCode, link, msg)

\* -------------------------------------------------------- pages and lists
\* A fetched page: marker says the disclosure text occurs in its body, links
\* are the resolved first qualifying anchors after the occurrences, next the
\* resolved href of its next-page anchor (NoneUrl: none), articles the
\* article links of a Livedoor list page.
Html(marker, links, next, articles) ==
    [marker |-> marker, links |-> links, next |-> next, articles |-> articles]

NoHtml == Html(FALSE, {}, NoneUrl, {})

\* the value of extract_ad_links: None, or the list of candidates
NoneLinks == [none |-> TRUE, links |-> {}]
SomeLinks(links) == [none |-> FALSE, links |-> links]

extract_ad_links(html, base_url) ==
    IF ~html.marker THEN NoneLinks
    ELSE SomeLinks({l \in html.links : l # base_url})

\* a lookup that never finds the next-page anchor
NoNextPageLink(html, base_url) == NoneUrl
find_hatena_next_page_link(html, base_url) == html.next
find_livedoor_next_page_link(html, base_url) == html.next
extract_livedoor_article_links(html, base_url) == html.articles

\* any(ex_str in link for ex_str in exclude_strings)
Excluded(link) == \E ex_str \in exclude_strings : Contains(link, ex_str)

\* a filter that keeps every link
FilterLinksKeepAll(links) == links

\* lines 214 / 262
FilterLinks(links) == {l \in links : ~Excluded(l)}

NoAdLinkMsg == "no ad link found"

\* the record appended on line 218 / 266
SyntheticRow(blog_url, page_url) ==
    Row(blog_url, page_url, page_url, "ERROR", NoneCode, page_url, NoAdLinkMsg)

\* a synthetic record whenever the extractor's own list is empty
NeedsSyntheticUnfiltered(extracted_links) ==
    ~extracted_links.none /\ extracted_links.links = {}

\* lines 212-216 / 260-264: "if not filtered_links"
NeedsSynthetic(extracted_links) ==
    ~extracted_links.none /\ FilterLinks(extracted_links.links) = {}

\* is_hatena / is_livedoor (lines 201-202)
is_hatena(blog_url) ==
    Contains(blog_url, "hatenablog.com") \/ Contains(blog_url, "hatenablog.jp")
is_livedoor(blog_url) ==
    Contains(blog_url, "livedoor.blog") \/ Contains(blog_url, "blog.jp")

\* ------------------------------------------------------------------- sort
\* the sort key of line 330
KeyOf(row) == <<row.spreadsheet_link, row.blog_article_url, row.affiliate_link>>

\* the first position where two keys differ, 0 when they are equal
FirstDiff(a, b) ==
    IF a[1] # b[1] THEN 1 ELSE IF a[2] # b[2] THEN 2 ELSE IF a[3] # b[3] THEN 3 ELSE 0

\* a < b for two keys (tuple comparison)
KeyLess(a, b) ==
    LET i == FirstDiff(a, b) IN i # 0 /\ StrLess(a[i], b[i])

\* comparing the keys raises TypeError: None against a str
Incomparable(a, b) ==
    LET i == FirstDiff(a, b) IN i # 0 /\ (a[i] = NoneUrl \/ b[i] = NoneUrl)

\* list.sort raises; taken to happen whenever two keys of the list cannot be
\* compared
SortRaises(rows) ==
    \E i, j \in 1..Len(rows) : Incomparable(KeyOf(rows[i]), KeyOf(rows[j]))

\* row put into a sorted list, after the rows that are not greater (stable)
RECURSIVE Insert(_, _)
Insert(row, sorted) ==
    IF sorted = <<>> THEN <<row>>
    ELSE IF KeyLess(KeyOf(row), KeyOf(Head(sorted))) THEN <<row>> \o sorted
    ELSE <<Head(sorted)>> \o Insert(row, Tail(sorted))

RECURSIVE SortFrom(_, _)
SortFrom(rows, sorted) ==
    IF rows = <<>> THEN sorted ELSE SortFrom(Tail(rows), Insert(Head(rows), sorted))

\* a sort that leaves the list as it is
SortRowsNot(rows) == rows

\* all_detailed_results.sort(key=...)
SortRows(rows) == SortFrom(rows, <<>>)

\* ------------------------------------------------------------------ state
VARIABLES
    lk_pc,        \* LinkSpec: "start", "checked", "classified"
    lk_site,      \* LinkSpec: what the site of the link serves
    lk_ng_words,  \* LinkSpec: NG_WORDS
    lk_item,      \* LinkSpec: the entry the link belongs to
    lk_result,    \* LinkSpec: the value check_link_status returned
    lk_row,       \* LinkSpec: the record appended for the link
    ex_pc,        \* ExtractSpec: "start", "extracted"
    ex_doc,       \* ExtractSpec: the nodes of soup.body in document order
    ex_links,     \* ExtractSpec: the value extract_ad_links returned
    pc,                      \* where lambda_handler is
    event,                   \* "no_records", "bad_manifest" or "ok"
    auto_urls,               \* input_data['auto_url_list']
    manual_urls,             \* input_data['manual_url_list']
    previous_error_details,  \* input_data['previous_error_details'] as keys
    max_workers,             \* ThreadPoolExecutor(max_workers=MAX_WORKERS)
    site_next,               \* WalkSpec: the page each page's next link leads to
    t,                       \* index of target_item in auto_urls
    current_page_url,        \* current_page_url / current_list_page_url /
                             \* article_url, while the code reads it
    html_content,            \* the page last fetched, while the code reads it
    all_article_urls,        \* Livedoor: the article URLs collected
    articles_left,           \* Livedoor: what the for loop has not visited
    futures,                 \* the tasks of the current ThreadPoolExecutor
    all_detailed_results,    \* the result list
    page_fetches,            \* get_html_content calls so far
    fetch_failed,            \* a page fetch of the target being crawled failed
    fetched,                 \* a page of the target being crawled was fetched
    delays,                  \* time.sleep calls since the last page fetch
    link_checks,             \* check_link_status calls started so far
    report,                  \* rows of linkcheck_result.csv as put to S3
    report_state,            \* "none", "written", "failed"
    flag_state,              \* lambda_completion_status.json: same values
    response                 \* the value lambda_handler returns

lk_vars == <<lk_pc, lk_site, lk_ng_words, lk_item, lk_result, lk_row>>
ex_vars == <<ex_pc, ex_doc, ex_links>>
in_vars == <<event, auto_urls, manual_urls, previous_error_details, max_workers,
            site_next>>
crawl_vars == <<t, current_page_url, html_content, all_article_urls, articles_left>>
out_vars == <<report, report_state, flag_state, response>>
count_vars == <<page_fetches, link_checks>>
trace_vars == <<fetch_failed, fetched, delays>>
run_vars == <<pc, in_vars, crawl_vars, futures, all_detailed_results, count_vars,
              trace_vars, out_vars>>
vars == <<lk_vars, ex_vars, run_vars>>

\* ---------------------------------------------- one link, checked alone
NoResult == CheckResult(NoneCode, NoneUrl, NoneMsg, 0)
NoRow == Row(NoneUrl, NoneUrl, NoneUrl, "", NoneCode, NoneUrl, NoneMsg)

LinkUrl == Url(ShopHost, "/aff", 1)

\* the entries a link is checked for: a page of a crawled blog (kind auto),
\* or an entry of manual_url_list
LinkItems ==
    [kind : {"auto"},
     spreadsheet_link : {Url(HatenaBlogHost, "/", 1), Url(LivedoorBlogHost, "/", 1)},
     blog_article_url : {Url(HatenaBlogHost, "/", 2)},
     affiliate_link : {LinkUrl}]
    \cup
    [kind : {"manual"},
     spreadsheet_link : {NoneUrl, Url(SheetHost, "/", 1), Url(HatenaBlogHost, "/", 1)},
     blog_article_url : {Url(HatenaBlogHost, "/entry", 1)},
     affiliate_link : {LinkUrl}]

NgWordLists == {<<>>, <<"soldout">>}

LinkInit ==
    /\ lk_pc = "start"
    /\ lk_site \in Sites
    /\ lk_ng_words \in NgWordLists
    /\ lk_item \in LinkItems
    /\ lk_result = NoResult
    /\ lk_row = NoRow
    /\ ex_pc = "off"
    /\ ex_doc = <<>>
    /\ ex_links = NoneLinks
    /\ pc = "off"
    /\ event = "ok"
    /\ auto_urls = <<>>
    /\ manual_urls = <<>>
    /\ previous_error_details = {}
    /\ max_workers = MAX_WORKERS
    /\ site_next = [p \in 1..MaxPages |-> 0]
    /\ t = 1
    /\ current_page_url = NoneUrl
    /\ html_content = NoHtml
    /\ all_article_urls = {}
    /\ articles_left = {}
    /\ futures = <<>>
    /\ all_detailed_results = <<>>
    /\ page_fetches = 0
    /\ link_checks = 0
    /\ fetch_failed = FALSE
    /\ fetched = FALSE
    /\ delays = 0
    /\ report = <<>>
    /\ report_state = "none"
    /\ flag_state = "none"
    /\ response = [statusCode |-> 0, error |-> NoneMsg]

\* executor.submit(check_link_status, link, ng_words) runs to its return
LinkCheck ==
    /\ lk_pc = "start"
    /\ lk_result' = check_link_status(lk_site, lk_item.affiliate_link, lk_ng_words)
    /\ lk_pc' = "checked"
    /\ UNCHANGED <<lk_site, lk_ng_words, lk_item, lk_row, ex_vars, run_vars>>

\* the body of the as_completed loop for this future
LinkClassify ==
    /\ lk_pc = "checked"
    /\ lk_row' = IF lk_item.kind = "auto"
                 THEN AutoRow(lk_item.spreadsheet_link, lk_item.blog_article_url,
                              lk_item.affiliate_link, lk_result)
                 ELSE ManualRow(lk_item, lk_result)
    /\ lk_pc' = "classified"
    /\ UNCHANGED <<lk_site, lk_ng_words, lk_item, lk_result, ex_vars, run_vars>>

LinkNext == LinkCheck \/ LinkClassify

LinkSpec == LinkInit /\ [][LinkNext]_vars

\* ---------------------------------------------------------- lambda_handler
\* entries of auto_url_list: dict says the entry is a JSON object (get works)
AutoEntry(url) == [dict |-> TRUE, url |-> url]
MalformedAuto == [dict |-> FALSE, url |-> NoneUrl]

HatenaBlog == Url(HatenaBlogHost, "/", 1)
LivedoorBlog == Url(LivedoorBlogHost, "/", 1)

AutoEntries ==
    { AutoEntry(HatenaBlog), AutoEntry(LivedoorBlog),
      AutoEntry(Url(OtherBlogHost, "/", 1)), MalformedAuto }

\* entries of manual_url_list; a missing key reads as None
ManualItem(sl, bau, al) ==
    [dict |-> TRUE, spreadsheet_link |-> sl, blog_article_url |-> bau,
     affiliate_link |-> al]
MalformedManual ==
    [dict |-> FALSE, spreadsheet_link |-> NoneUrl, blog_article_url |-> NoneUrl,
     affiliate_link |-> NoneUrl]

Sheet == Url(SheetHost, "/", 1)

ManualEntries ==
    { ManualItem(Sheet, Url(HatenaBlogHost, "/entry", 1), Url(ShopHost, "/aff", 1)),
      ManualItem(NoneUrl, Url(HatenaBlogHost, "/entry", 2), Url(ShopHost, "/aff", 2)),
      ManualItem(Sheet, Url(HatenaBlogHost, "/entry", 1), Url(ShopHost, "/aff-tracking", 1)),
      MalformedManual }

SeqsUpTo(S, n) == UNION {[1..k -> S] : k \in 0..n}

\* FailureKey: (page-or-article-url, checked-link)
FailureKey(row) == <<row.blog_article_url, row.affiliate_link>>
\* the NG keys of the run before: one manual entry had failed
PreviousSets ==
    { {<<Url(HatenaBlogHost, "/entry", 1), Url(ShopHost, "/aff", 1)>>} }

\* what the pages of a run may hold
PageLinkSets(url) ==
    { {}, {Url(ShopHost, "/aff", 1)}, {Url(ShopHost, "/aff-tracking", 1)},
      {Url(ShopHost, "/aff", 1), Url(ShopHost, "/aff", 2)} }
\* a page links to a further page only while fetches are left for it
NextChoices(url) ==
    IF page_fetches + 1 < MaxFetches
    THEN {NoneUrl, Url(url.host, url.path, url.page + 1)} ELSE {NoneUrl}
ArticleSets ==
    {arts \in { {}, {Url(LivedoorBlogHost, "/entry", 1)},
                {Url(LivedoorBlogHost, "/entry", 1), Url(LivedoorBlogHost, "/entry", 2)} } :
        page_fetches + 1 + Cardinality(arts \ all_article_urls) <= MaxFetches}

HatenaPages(url) ==
    {Html(FALSE, {}, nx, {}) : nx \in NextChoices(url)}
    \cup {Html(TRUE, ls, nx, {}) : ls \in PageLinkSets(url), nx \in NextChoices(url)}
ListPages(url) ==
    {Html(FALSE, {}, nx, arts) : nx \in NextChoices(url), arts \in ArticleSets}
ArticlePages(url) ==
    {Html(FALSE, {}, NoneUrl, {})}
    \cup {Html(TRUE, ls, NoneUrl, {}) : ls \in PageLinkSets(url)}

\* what the sites of the checked links serve in a run
HandlerSites ==
    { [hops |-> 0, terminal |-> [kind |-> "plain", status |-> 200,
                                 url |-> Url(ShopHost, "/aff", 1), words |-> {}]],
      [hops |-> 0, terminal |-> [kind |-> "timeout", status |-> NoneCode,
                                 url |-> NoneUrl, words |-> {}]] }

UnexpectedMsg == "unexpected error in task"

\* a future of the pool: the link (and, in the manual pool, the entry) it
\* was submitted for, where it is, and what it holds once done
Future(link, item) ==
    [link |-> link, item |-> item, state |-> "pending", raised |-> FALSE,
     result |-> NoResult]

RECURSIVE LinkFutures(_)
LinkFutures(links) ==
    IF links = {} THEN <<>>
    ELSE LET l == CHOOSE x \in links : TRUE IN
         <<Future(l, MalformedManual)>> \o LinkFutures(links \ {l})

\* a pool without a limit: every queued task is taken at once
StartWorkersUnbounded(fs) ==
    [f \in DOMAIN fs |-> IF fs[f].state = "pending"
                         THEN [fs[f] EXCEPT !.state = "running"] ELSE fs[f]]

\* ThreadPoolExecutor(max_workers=MAX_WORKERS): submit starts a thread for a
\* task while fewer than MAX_WORKERS exist, and a thread that is free takes
\* the oldest queued task; fs with the queued tasks taken that a thread is
\* free for
StartWorkers(fs) ==
    LET running == Cardinality({f \in DOMAIN fs : fs[f].state = "running"})
        queued(f) == Cardinality({g \in 1..f : fs[g].state = "pending"})
    IN [f \in DOMAIN fs |->
          IF fs[f].state = "pending" /\ running + queued(f) <= max_workers
          THEN [fs[f] EXCEPT !.state = "running"] ELSE fs[f]]

\* check_link_status calls started when fs becomes gs
Started(fs, gs) ==
    Cardinality({f \in DOMAIN gs : gs[f].state = "running" /\ fs[f].state = "pending"})

\* lines 294-297
RECURSIVE filtered_manual_urls(_)
filtered_manual_urls(items) ==
    IF items = <<>> THEN <<>>
    ELSE (IF Head(items).affiliate_link # NoneUrl /\ ~Excluded(Head(items).affiliate_link)
          THEN <<Head(items)>> ELSE <<>>) \o filtered_manual_urls(Tail(items))

ManualFutures(items) == [i \in 1..Len(items) |-> Future(items[i].affiliate_link, items[i])]

blog_url == auto_urls[t].url
Running == {f \in DOMAIN futures : futures[f].state = "running"}
\* a with block that does not wait for its tasks
AllCollectedNoWait == TRUE
AllCollected == \A f \in DOMAIN futures : futures[f].state = "collected"
PoolPcs == {"h_pool", "l_pool", "m_pool"}

NoResponse == [statusCode |-> 0, error |-> NoneMsg]
Return(code, err) ==
    /\ pc' = "returned"
    /\ response' = [statusCode |-> code, error |-> err]

Init ==
    /\ lk_pc = "off"
    /\ lk_site = [hops |-> 0, terminal |-> [kind |-> "timeout", status |-> NoneCode,
                                            url |-> NoneUrl, words |-> {}]]
    /\ lk_ng_words = <<>>
    /\ lk_item = [kind |-> "auto", spreadsheet_link |-> NoneUrl,
                  blog_article_url |-> NoneUrl, affiliate_link |-> NoneUrl]
    /\ lk_result = NoResult
    /\ lk_row = NoRow
    /\ ex_pc = "off"
    /\ ex_doc = <<>>
    /\ ex_links = NoneLinks
    /\ pc = "start"
    /\ event \in {"no_records", "bad_manifest", "ok"}
    /\ auto_urls \in SeqsUpTo(AutoEntries, MaxEntries)
    /\ manual_urls \in SeqsUpTo(ManualEntries, MaxEntries)
    /\ Len(auto_urls) + Len(manual_urls) <= MaxEntries
    /\ previous_error_details \in PreviousSets
    /\ max_workers \in 1..MAX_WORKERS
    /\ site_next = [p \in 1..MaxPages |-> 0]
    /\ max_workers < MAX_WORKERS =>
          Len(auto_urls) + Len(manual_urls) <= MaxSmallPoolEntries
    /\ event # "ok" => auto_urls = <<>> /\ manual_urls = <<>>
    /\ t = 1
    /\ current_page_url = NoneUrl
    /\ html_content = NoHtml
    /\ all_article_urls = {}
    /\ articles_left = {}
    /\ futures = <<>>
    /\ all_detailed_results = <<>>
    /\ page_fetches = 0
    /\ link_checks = 0
    /\ fetch_failed = FALSE
    /\ fetched = FALSE
    /\ delays = 0
    /\ report = <<>>
    /\ report_state = "none"
    /\ flag_state = "none"
    /\ response = NoResponse

\* line 181-182
NoRecords ==
    /\ pc = "start" /\ event = "no_records"
    /\ Return(400, "no S3 records in the event")
    /\ UNCHANGED <<lk_vars, ex_vars, trace_vars, in_vars, crawl_vars, futures, all_detailed_results,
                   count_vars, report, report_state, flag_state>>

\* lines 187-188 raise: the manifest cannot be read or parsed
LoadManifestFails ==
    /\ pc = "start" /\ event = "bad_manifest"
    /\ Return(500, "JSONDecodeError")
    /\ UNCHANGED <<lk_vars, ex_vars, trace_vars, in_vars, crawl_vars, futures, all_detailed_results,
                   count_vars, report, report_state, flag_state>>

\* lines 183-193
LoadManifest ==
    /\ pc = "start" /\ event = "ok"
    /\ pc' = "targets"
    /\ UNCHANGED <<lk_vars, ex_vars, trace_vars, in_vars, crawl_vars, futures, all_detailed_results,
                   count_vars, out_vars>>

\* line 198: target_item.get raises AttributeError
TargetMalformed ==
    /\ pc = "targets" /\ t <= Len(auto_urls)
    /\ ~auto_urls[t].dict
    /\ Return(500, "AttributeError")
    /\ UNCHANGED <<lk_vars, ex_vars, trace_vars, in_vars, crawl_vars, futures, all_detailed_results,
                   count_vars, report, report_state, flag_state>>

\* line 199 (no url) and line 288 (unsupported blog)
TargetSkipped ==
    /\ pc = "targets" /\ t <= Len(auto_urls)
    /\ auto_urls[t].dict
    /\ blog_url = NoneUrl \/ (~is_hatena(blog_url) /\ ~is_livedoor(blog_url))
    /\ t' = t + 1
    /\ UNCHANGED <<lk_vars, ex_vars, trace_vars, pc, in_vars, current_page_url, html_content,
                   all_article_urls, articles_left, futures, all_detailed_results,
                   count_vars, out_vars>>

\* lines 204-205
TargetHatena ==
    /\ pc = "targets" /\ t <= Len(auto_urls)
    /\ auto_urls[t].dict /\ blog_url # NoneUrl
    /\ is_hatena(blog_url)
    /\ current_page_url' = blog_url
    /\ pc' = "h_fetch"
    /\ fetch_failed' = FALSE /\ fetched' = FALSE /\ delays' = 0
    /\ UNCHANGED <<lk_vars, ex_vars, in_vars, t, html_content, all_article_urls, articles_left,
                   futures, all_detailed_results, count_vars, out_vars>>

\* lines 243-245
TargetLivedoor ==
    /\ pc = "targets" /\ t <= Len(auto_urls)
    /\ auto_urls[t].dict /\ blog_url # NoneUrl
    /\ ~is_hatena(blog_url) /\ is_livedoor(blog_url)
    /\ all_article_urls' = {}
    /\ current_page_url' = blog_url
    /\ pc' = "l_list_fetch"
    /\ fetch_failed' = FALSE /\ fetched' = FALSE /\ delays' = 0
    /\ UNCHANGED <<lk_vars, ex_vars, in_vars, t, html_content, articles_left,
                   futures, all_detailed_results, count_vars, out_vars>>

\* lines 207-208: get_html_content returns None, break
HatenaFetchFails ==
    /\ pc = "h_fetch"
    /\ page_fetches' = page_fetches + 1
    /\ html_content' = NoHtml
    /\ current_page_url' = NoneUrl
    /\ t' = t + 1
    /\ pc' = "targets"
    \* the target is left at once
    /\ fetch_failed' = FALSE /\ fetched' = FALSE /\ delays' = 0
    /\ UNCHANGED <<lk_vars, ex_vars, in_vars, all_article_urls, articles_left,
                   futures, all_detailed_results, link_checks, out_vars>>

\* lines 210-222 / 258-270 after a page was fetched: extract, filter, the
\* synthetic record, and the tasks submitted to a new pool
ProcessPage(html, pool_pc, skip_pc) ==
    LET extracted_links == extract_ad_links(html, current_page_url)
        filtered_links == FilterLinks(extracted_links.links)
    IN /\ link_checks + Cardinality(filtered_links) <= MaxChecks
       /\ html_content' = IF extracted_links.none /\ skip_pc = "l_articles"
                          THEN NoHtml ELSE html
       /\ page_fetches' = page_fetches + 1
       /\ link_checks' = link_checks
                         + (IF extracted_links.none THEN 0
                            ELSE Started(LinkFutures(filtered_links),
                                         StartWorkers(LinkFutures(filtered_links))))
       /\ IF extracted_links.none
          THEN /\ pc' = skip_pc
               /\ futures' = <<>>
               /\ UNCHANGED all_detailed_results
          ELSE /\ all_detailed_results' =
                     IF NeedsSynthetic(extracted_links)
                     THEN Append(all_detailed_results,
                                 SyntheticRow(blog_url, current_page_url))
                     ELSE all_detailed_results
               /\ futures' = StartWorkers(LinkFutures(filtered_links))
               /\ pc' = pool_pc

\* lines 207-222: a page of the Hatena blog is fetched
HatenaFetchPage ==
    /\ pc = "h_fetch"
    /\ page_fetches < MaxFetches
    /\ \E html \in HatenaPages(current_page_url) : ProcessPage(html, "h_pool", "h_pool")
    /\ fetched' = TRUE /\ delays' = 0 /\ UNCHANGED fetch_failed
    /\ UNCHANGED <<lk_vars, ex_vars, in_vars, t, current_page_url, all_article_urls,
                   articles_left, out_vars>>

\* the with block, if the page had one, is over (line 238: the pool has shut
\* down); lines 240-241 and the while test of line 206
HatenaNextPage ==
    /\ pc = "h_pool" /\ AllCollected
    /\ futures' = <<>>
    /\ LET next == find_hatena_next_page_link(html_content, current_page_url) IN
       /\ current_page_url' = next
       /\ IF next # NoneUrl
          THEN pc' = "h_sleep" /\ t' = t
          ELSE pc' = "targets" /\ t' = t + 1
    /\ html_content' = NoHtml
    /\ fetched' = (current_page_url' # NoneUrl /\ fetched)
    /\ UNCHANGED <<fetch_failed, delays>>
    /\ UNCHANGED <<lk_vars, ex_vars, in_vars, all_article_urls, articles_left,
                   all_detailed_results, count_vars, out_vars>>

\* time.sleep(CRAWL_WAIT_SECONDS) of line 241 is over
HatenaSleep ==
    /\ pc = "h_sleep"
    /\ pc' = "h_fetch"
    /\ delays' = delays + 1 /\ UNCHANGED <<fetch_failed, fetched>>
    /\ UNCHANGED <<lk_vars, ex_vars, in_vars, crawl_vars, futures, all_detailed_results,
                   count_vars, out_vars>>

\* a loop that goes on with continue where line 248 has break: the page is
\* fetched again
ListFetchFailsRetries ==
    /\ pc = "l_list_fetch"
    /\ page_fetches < MaxFetches
    /\ page_fetches' = page_fetches + 1
    /\ pc' = "l_list_fetch"
    /\ fetch_failed' = TRUE /\ fetched' = TRUE /\ delays' = 0
    /\ UNCHANGED <<lk_vars, ex_vars, in_vars, crawl_vars, futures, all_detailed_results,
                   link_checks, out_vars>>

\* lines 247-248: get_html_content returns None, break
ListFetchFails ==
    /\ pc = "l_list_fetch"
    /\ page_fetches' = page_fetches + 1
    /\ current_page_url' = NoneUrl
    /\ articles_left' = all_article_urls
    /\ pc' = "l_articles"
    /\ fetch_failed' = TRUE /\ fetched' = TRUE /\ delays' = 0
    /\ UNCHANGED <<lk_vars, ex_vars, in_vars, t, html_content, all_article_urls,
                   futures, all_detailed_results, link_checks, out_vars>>

\* lines 247-251: a list page is fetched
ListFetchPage ==
    /\ pc = "l_list_fetch"
    /\ page_fetches < MaxFetches
    /\ \E html \in ListPages(current_page_url) :
         LET next == find_livedoor_next_page_link(html, current_page_url) IN
         /\ all_article_urls' = all_article_urls
                \cup extract_livedoor_article_links(html, current_page_url)
         /\ current_page_url' = next
         /\ IF next # NoneUrl
            THEN pc' = "l_list_sleep" /\ UNCHANGED articles_left
            ELSE pc' = "l_articles" /\ articles_left' = all_article_urls'
    /\ page_fetches' = page_fetches + 1
    /\ fetched' = TRUE /\ delays' = 0 /\ UNCHANGED fetch_failed
    /\ UNCHANGED <<lk_vars, ex_vars, in_vars, t, html_content, futures, all_detailed_results,
                   link_checks, out_vars>>

\* time.sleep(CRAWL_WAIT_SECONDS) of line 251 is over
ListSleep ==
    /\ pc = "l_list_sleep"
    /\ pc' = "l_list_fetch"
    /\ delays' = delays + 1 /\ UNCHANGED <<fetch_failed, fetched>>
    /\ UNCHANGED <<lk_vars, ex_vars, in_vars, crawl_vars, futures, all_detailed_results,
                   count_vars, out_vars>>

\* line 253: the for loop over the set is over
ArticlesDone ==
    /\ pc = "l_articles" /\ articles_left = {}
    /\ t' = t + 1
    /\ all_article_urls' = {}
    /\ current_page_url' = NoneUrl
    /\ pc' = "targets"
    /\ fetch_failed' = FALSE /\ fetched' = FALSE /\ UNCHANGED delays
    /\ UNCHANGED <<lk_vars, ex_vars, in_vars, html_content,
                   articles_left, futures, all_detailed_results, count_vars, out_vars>>

\* a loop over the articles without line 254
ArticleNextNoSleep ==
    /\ pc = "l_articles"
    /\ \E article_url \in articles_left :
         /\ articles_left' = articles_left \ {article_url}
         /\ current_page_url' = article_url
    /\ pc' = "l_article_fetch"
    /\ UNCHANGED <<fetch_failed, fetched, delays>>
    /\ UNCHANGED <<lk_vars, ex_vars, in_vars, t, html_content, all_article_urls,
                   futures, all_detailed_results, count_vars, out_vars>>

\* lines 253-254: the next article of the set, in the set's order, and
\* time.sleep(PER_ARTICLE_WAIT_SECONDS)
ArticleNext ==
    /\ pc = "l_articles"
    /\ \E article_url \in articles_left :
         /\ articles_left' = articles_left \ {article_url}
         /\ current_page_url' = article_url
    /\ pc' = "l_article_fetch"
    \* time.sleep(PER_ARTICLE_WAIT_SECONDS)
    /\ delays' = delays + 1 /\ UNCHANGED <<fetch_failed, fetched>>
    /\ UNCHANGED <<lk_vars, ex_vars, in_vars, t, html_content, all_article_urls,
                   futures, all_detailed_results, count_vars, out_vars>>

\* lines 255-256: get_html_content returns None, continue
ArticleFetchFails ==
    /\ pc = "l_article_fetch"
    /\ page_fetches' = page_fetches + 1
    /\ pc' = "l_articles"
    /\ fetch_failed' = TRUE /\ fetched' = TRUE /\ delays' = 0
    /\ UNCHANGED <<lk_vars, ex_vars, in_vars, t, current_page_url, html_content, all_article_urls,
                   articles_left, futures, all_detailed_results, link_checks, out_vars>>

\* lines 255-270: an article is fetched
ArticleFetchPage ==
    /\ pc = "l_article_fetch"
    /\ page_fetches < MaxFetches
    /\ \E html \in ArticlePages(current_page_url) :
         ProcessPage(html, "l_pool", "l_articles")
    /\ fetched' = TRUE /\ delays' = 0 /\ UNCHANGED fetch_failed
    /\ UNCHANGED <<lk_vars, ex_vars, in_vars, t, current_page_url, all_article_urls,
                   articles_left, out_vars>>

\* the end of the with block (line 286)
ArticlePoolExit ==
    /\ pc = "l_pool" /\ AllCollected
    /\ futures' = <<>>
    /\ html_content' = NoHtml
    /\ pc' = "l_articles"
    /\ UNCHANGED <<lk_vars, ex_vars, trace_vars, in_vars, t, current_page_url, all_article_urls,
                   articles_left, all_detailed_results, count_vars, out_vars>>

\* a task is over with `done` as its future; the thread takes the next
\* queued task
Finish(f, done) ==
    LET fs == [futures EXCEPT ![f] = done] IN
    /\ futures' = StartWorkers(fs)
    /\ link_checks' = link_checks + Started(fs, futures')

\* check_link_status returns
WorkerReturns(f) ==
    /\ pc \in PoolPcs
    /\ futures[f].state = "running"
    /\ \E site \in HandlerSites :
         Finish(f, [futures[f] EXCEPT
                      !.state = "done",
                      !.result = check_link_status(site, futures[f].link, ng_words_env)])
    /\ UNCHANGED <<lk_vars, ex_vars, trace_vars, pc, in_vars, crawl_vars, all_detailed_results,
                   page_fetches, out_vars>>

\* check_link_status raises an exception it does not handle
WorkerRaises(f) ==
    /\ pc \in PoolPcs
    /\ futures[f].state = "running"
    /\ Finish(f, [futures[f] EXCEPT !.state = "done", !.raised = TRUE])
    /\ UNCHANGED <<lk_vars, ex_vars, trace_vars, pc, in_vars, crawl_vars, all_detailed_results,
                   page_fetches, out_vars>>

\* the record a task that raised is given: none at all
RecordsForDropRaised(f) ==
    IF futures[f].raised THEN <<>>
    ELSE IF pc = "m_pool" THEN <<ManualRow(futures[f].item, futures[f].result)>>
    ELSE <<AutoRow(blog_url, current_page_url, futures[f].link, futures[f].result)>>

\* the body of the as_completed loop for the future f: lines 224-238,
\* 272-286, 303-318
RecordsFor(f) ==
    IF pc = "m_pool"
    THEN IF futures[f].raised
         THEN <<ExceptionRow(futures[f].item.spreadsheet_link,
                             futures[f].item.blog_article_url,
                             futures[f].item.affiliate_link, UnexpectedMsg)>>
         ELSE <<ManualRow(futures[f].item, futures[f].result)>>
    ELSE IF futures[f].raised
         THEN <<ExceptionRow(blog_url, current_page_url, futures[f].link, UnexpectedMsg)>>
         ELSE <<AutoRow(blog_url, current_page_url, futures[f].link, futures[f].result)>>

\* a loop without the except clause: the exception of a task reaches line 366
CollectPropagates(f) ==
    /\ pc \in PoolPcs
    /\ futures[f].state = "done"
    /\ IF futures[f].raised
       THEN /\ Return(500, UnexpectedMsg)
            /\ UNCHANGED <<futures, all_detailed_results>>
       ELSE /\ all_detailed_results' = all_detailed_results \o RecordsFor(f)
            /\ futures' = [futures EXCEPT ![f].state = "collected"]
            /\ UNCHANGED <<pc, response>>
    /\ UNCHANGED <<lk_vars, ex_vars, trace_vars, in_vars, crawl_vars, count_vars, report, report_state,
                   flag_state>>

\* as_completed yields a finished future to the main thread
Collect(f) ==
    /\ pc \in PoolPcs
    /\ futures[f].state = "done"
    /\ all_detailed_results' = all_detailed_results \o RecordsFor(f)
    /\ futures' = [futures EXCEPT ![f].state = "collected"]
    /\ UNCHANGED <<lk_vars, ex_vars, trace_vars, pc, in_vars, crawl_vars, count_vars, out_vars>>

TaskReturns == \E f \in DOMAIN futures : WorkerReturns(f)
TaskRaises == \E f \in DOMAIN futures : WorkerRaises(f)
TaskCollected == \E f \in DOMAIN futures : Collect(f)

\* the for loop of line 197 is over; lines 294-297: item.get raises
\* AttributeError on an entry that is no object
ManualMalformed ==
    /\ pc = "targets" /\ t > Len(auto_urls)
    /\ \E i \in 1..Len(manual_urls) : ~manual_urls[i].dict
    /\ Return(500, "AttributeError")
    /\ UNCHANGED <<lk_vars, ex_vars, trace_vars, in_vars, crawl_vars, futures, all_detailed_results,
                   count_vars, report, report_state, flag_state>>

\* the for loop of line 197 is over; lines 294-301
ManualSubmit ==
    /\ pc = "targets" /\ t > Len(auto_urls)
    /\ \A i \in 1..Len(manual_urls) : manual_urls[i].dict
    /\ link_checks + Len(filtered_manual_urls(manual_urls)) <= MaxChecks
    /\ futures' = StartWorkers(ManualFutures(filtered_manual_urls(manual_urls)))
    /\ link_checks' = link_checks
                      + Started(ManualFutures(filtered_manual_urls(manual_urls)), futures')
    /\ pc' = "m_pool"
    /\ UNCHANGED <<lk_vars, ex_vars, trace_vars, in_vars, crawl_vars, all_detailed_results, page_fetches,
                   out_vars>>

\* the end of the with block (line 318)
ManualPoolExit ==
    /\ pc = "m_pool" /\ AllCollected
    /\ futures' = <<>>
    /\ pc' = "report"
    /\ UNCHANGED <<lk_vars, ex_vars, trace_vars, in_vars, crawl_vars, all_detailed_results,
                   count_vars, out_vars>>

\* line 330 raises TypeError
ReportSortFails ==
    /\ pc = "report"
    /\ SortRaises(all_detailed_results)
    /\ Return(500, "TypeError")
    /\ UNCHANGED <<lk_vars, ex_vars, trace_vars, in_vars, crawl_vars, futures, all_detailed_results,
                   count_vars, report, report_state, flag_state>>

\* lines 325-334: the list is sorted in place and the CSV put to S3
WriteReport ==
    /\ pc = "report"
    /\ ~SortRaises(all_detailed_results)
    /\ all_detailed_results' = SortRows(all_detailed_results)
    /\ report' = all_detailed_results'
    /\ report_state' = "written"
    /\ pc' = "flag"
    /\ UNCHANGED <<lk_vars, ex_vars, trace_vars, in_vars, crawl_vars, futures, count_vars, flag_state,
                   response>>

\* a handler that logs the error of line 333 and goes on to the flag
WriteReportFailsGoesOn ==
    /\ pc = "report"
    /\ ~SortRaises(all_detailed_results)
    /\ all_detailed_results' = SortRows(all_detailed_results)
    /\ report_state' = "failed"
    /\ pc' = "flag"
    /\ UNCHANGED <<lk_vars, ex_vars, trace_vars, in_vars, crawl_vars, futures, count_vars,
                   report, flag_state, response>>

\* line 333 raises: the exception reaches line 366
WriteReportFails ==
    /\ pc = "report"
    /\ ~SortRaises(all_detailed_results)
    /\ all_detailed_results' = SortRows(all_detailed_results)
    /\ report_state' = "failed"
    /\ Return(500, "S3 put_object failed")
    /\ UNCHANGED <<lk_vars, ex_vars, trace_vars, in_vars, crawl_vars, futures, count_vars, report,
                   flag_state>>

\* a handler that lets flag_err reach line 366
FlagErrorEscalates == Return(500, "S3 put_object failed")

\* lines 357-364: flag_err is logged, the run returns as after a success
FlagErrorHandled == Return(200, NoneMsg)

\* lines 337-355 and 364
WriteFlag ==
    /\ pc = "flag"
    /\ flag_state' = "written"
    /\ Return(200, NoneMsg)
    /\ UNCHANGED <<lk_vars, ex_vars, trace_vars, in_vars, crawl_vars, futures, all_detailed_results,
                   count_vars, report, report_state>>

\* line 349 raises
WriteFlagFails ==
    /\ pc = "flag"
    /\ flag_state' = "failed"
    /\ FlagErrorHandled
    /\ UNCHANGED <<lk_vars, ex_vars, trace_vars, in_vars, crawl_vars, futures, all_detailed_results,
                   count_vars, report, report_state>>

Next ==
    \/ NoRecords \/ LoadManifestFails \/ LoadManifest
    \/ TargetMalformed \/ TargetSkipped \/ TargetHatena \/ TargetLivedoor
    \/ HatenaFetchFails \/ HatenaFetchPage \/ HatenaNextPage
    \/ HatenaSleep
    \/ ListFetchFails \/ ListFetchPage \/ ListSleep
    \/ ArticlesDone \/ ArticleNext \/ ArticleFetchFails \/ ArticleFetchPage
    \/ ArticlePoolExit
    \/ TaskReturns \/ TaskRaises \/ TaskCollected
    \/ ManualMalformed \/ ManualSubmit \/ ManualPoolExit
    \/ ReportSortFails \/ WriteReport \/ WriteReportFails
    \/ WriteFlag \/ WriteFlagFails

Spec == Init /\ [][Next]_vars

\* ------------------------------------------------------------ claims C1-C3
\* the origin whose host the final host is compared with
LinkOrigin ==
    IF lk_item.kind = "manual" /\ lk_item.spreadsheet_link = NoneUrl
    THEN EmptyStr ELSE lk_item.spreadsheet_link

\* C1: a record made from a verifier outcome is OK iff the status code is
\* present and in [200,400), the outcome has no error message (no keyword
\* hit), the final host is not the blocked domain, and the final host is
\* the origin's host or the final URL does not contain "hatena"; every
\* other outcome gives NG ("ERROR").
C1_ClassificationLaw ==
    lk_pc = "classified" =>
        /\ lk_row.status \in {"OK", "ERROR"}
        /\ lk_row.status = "OK" <=>
              /\ lk_result.status_code # NoneCode
              /\ lk_result.status_code >= 200
              /\ lk_result.status_code < 400
              /\ lk_result.error_message \in {NoneMsg, ""}
              /\ Netloc(lk_result.final_url) # BlockedDomain
              /\ \/ Netloc(lk_result.final_url) = Netloc(LinkOrigin)
                 \/ ~Contains(lk_result.final_url, "hatena")

\* an OK record whose final URL contains "hatena" on the origin's own host
C1_Witness ==
    /\ lk_pc = "classified"
    /\ lk_row.status = "OK"
    /\ Contains(lk_result.final_url, "hatena")
    /\ lk_site.hops > 0

\* the URLs within n meta-refresh hops of url on a site
ReachedWithin(site, url, n) ==
    {url}
    \cup {HopUrl(i) : i \in 1..(IF site.hops < n THEN site.hops ELSE n)}
    \cup (IF site.hops <= n /\ site.terminal.kind # "timeout"
          THEN {site.terminal.url} ELSE {})

IsLimitOutcome(check_result) ==
    /\ check_result.status_code = NoneCode
    /\ check_result.error_message = LimitMsg

\* C2: the final URL a call returns is within 5 meta-refresh hops of the
\* requested URL, or the outcome is the redirect-limit outcome; and a call
\* issues a bounded number of fetches (at most 5).
C2_HopBound ==
    lk_pc # "start" =>
        /\ lk_result.fetches <= 5
        /\ \/ IsLimitOutcome(lk_result)
           \/ lk_result.final_url
                \in ReachedWithin(lk_site, lk_item.affiliate_link, 5)

\* a call on a chain longer than the loop: the redirect-limit outcome
C2_Witness ==
    /\ lk_pc = "checked"
    /\ lk_site.hops > 5
    /\ IsLimitOutcome(lk_result)
    /\ lk_result.fetches = 5

\* C3: on a chain of k hops, 1 <= k <= 5, whose pages are all fetched and
\* whose k-th target has no refresh directive, the call returns a success
\* outcome with the k-th target as final_url and that page's status; the
\* redirect-limit outcome is produced only when more than 5 hops are needed.
C3_FollowsFiveHops ==
    lk_pc = "checked" =>
        /\ ( /\ lk_site.hops \in 1..5
             /\ lk_site.terminal.kind = "plain"
             /\ FirstNgWord(lk_ng_words, lk_site.terminal.words) = NoneMsg )
           => /\ lk_result.final_url = lk_site.terminal.url
              /\ lk_result.status_code = lk_site.terminal.status
              /\ lk_result.error_message = NoneMsg
        /\ IsLimitOutcome(lk_result) => lk_site.hops > 5

\* ------------------------------------------- the pagination of one target
\* WalkSpec: a run on one blog whose pages are fixed (site_next), are all
\* served, and carry no disclosure marker and no article link.

\* get_html_content(url) on the blog of site_next
WalkPage(url) ==
    Html(FALSE, {},
         IF site_next[url.page] = 0 THEN NoneUrl
         ELSE Url(url.host, url.path, site_next[url.page]),
         {})

WalkInit ==
    /\ lk_pc = "off"
    /\ lk_site = [hops |-> 0, terminal |-> [kind |-> "timeout", status |-> NoneCode,
                                            url |-> NoneUrl, words |-> {}]]
    /\ lk_ng_words = <<>>
    /\ lk_item = [kind |-> "auto", spreadsheet_link |-> NoneUrl,
                  blog_article_url |-> NoneUrl, affiliate_link |-> NoneUrl]
    /\ lk_result = NoResult
    /\ lk_row = NoRow
    /\ ex_pc = "off"
    /\ ex_doc = <<>>
    /\ ex_links = NoneLinks
    /\ pc = "targets"
    /\ event = "ok"
    /\ auto_urls \in {<<AutoEntry(HatenaBlog)>>, <<AutoEntry(LivedoorBlog)>>}
    /\ manual_urls = <<>>
    /\ previous_error_details = {}
    /\ max_workers = MAX_WORKERS
    /\ site_next \in [1..MaxPages -> 0..MaxPages]
    /\ t = 1
    /\ current_page_url = NoneUrl
    /\ html_content = NoHtml
    /\ all_article_urls = {}
    /\ articles_left = {}
    /\ futures = <<>>
    /\ all_detailed_results = <<>>
    /\ page_fetches = 0
    /\ link_checks = 0
    /\ fetch_failed = FALSE
    /\ fetched = FALSE
    /\ delays = 0
    /\ report = <<>>
    /\ report_state = "none"
    /\ flag_state = "none"
    /\ response = NoResponse

\* lines 207-212: the page is served; extract_ad_links returns None
WalkHatenaPage ==
    /\ pc = "h_fetch"
    /\ html_content' = WalkPage(current_page_url)
    /\ page_fetches' = IF page_fetches < MaxFetches THEN page_fetches + 1
                       ELSE page_fetches
    /\ futures' = <<>>
    /\ pc' = "h_pool"
    /\ fetched' = TRUE /\ delays' = 0 /\ UNCHANGED fetch_failed
    /\ UNCHANGED <<lk_vars, ex_vars, in_vars, t, current_page_url, all_article_urls,
                   articles_left, all_detailed_results, link_checks, out_vars>>

\* lines 247-251: the list page is served
WalkListPage ==
    /\ pc = "l_list_fetch"
    /\ LET next == find_livedoor_next_page_link(WalkPage(current_page_url),
                                                current_page_url) IN
       /\ current_page_url' = next
       /\ pc' = IF next # NoneUrl THEN "l_list_sleep" ELSE "l_articles"
    /\ page_fetches' = IF page_fetches < MaxFetches THEN page_fetches + 1
                       ELSE page_fetches
    /\ fetched' = TRUE /\ delays' = 0 /\ UNCHANGED fetch_failed
    /\ UNCHANGED <<lk_vars, ex_vars, in_vars, t, html_content, all_article_urls, articles_left,
                   futures, all_detailed_results, link_checks, out_vars>>

WalkNext ==
    \/ TargetHatena \/ WalkHatenaPage \/ HatenaNextPage \/ HatenaSleep
    \/ TargetLivedoor \/ WalkListPage \/ ListSleep \/ ArticlesDone
    \/ ManualSubmit \/ ManualPoolExit
    \/ WriteReport \/ WriteReportFails \/ WriteFlag \/ WriteFlagFails

\* every step of the run returns: the run goes on while it can
WalkSpec == WalkInit /\ [][WalkNext]_vars /\ WF_vars(WalkNext)

\* ----------------------------------------------------------- claims C4-C10
Rows == {all_detailed_results[i] : i \in DOMAIN all_detailed_results}

\* B: the NG keys of the run
CurrentNgKeys == {FailureKey(r) : r \in {x \in Rows : x.status = "ERROR"}}

\* The differential results a run hands out.  lambda_handler puts
\* linkcheck_result.csv and lambda_completion_status.json and returns a
\* message; previous_error_details is never read and no new/fixed sets are
\* computed, so there are none.
DiffResults == {}

\* C4: a run computes, from the previous NG keys A of the manifest and its
\* own NG keys B, new = B \ A and fixed = A \ B (so no key is in both, and
\* both are empty when A = B).
C4_DiffComputed ==
    (pc = "returned" /\ response.statusCode = 200) =>
        DiffResults = {[new |-> CurrentNgKeys \ previous_error_details,
                        fixed |-> previous_error_details \ CurrentNgKeys]}

Last(seq) == seq[Len(seq)]

PoolStep ==
    pc \in PoolPcs =>
    /\ \A f \in DOMAIN futures :
          ( /\ futures[f].state = "done"
            /\ f \in DOMAIN futures'
            /\ futures'[f].state = "collected" )
          => /\ Len(all_detailed_results') = Len(all_detailed_results) + 1
             /\ SubSeq(all_detailed_results', 1, Len(all_detailed_results))
                  = all_detailed_results
             /\ Last(all_detailed_results').affiliate_link = futures[f].link
             /\ futures[f].raised =>
                  /\ Last(all_detailed_results').status = "ERROR"
                  /\ Last(all_detailed_results').error_message = UnexpectedMsg
             /\ \A g \in DOMAIN futures \ {f} : futures'[g] = futures[g]
    /\ ( /\ pc' \in PoolPcs
         /\ \A f \in DOMAIN futures : futures[f].state = "done"
                                     => futures'[f].state = "done" )
       => all_detailed_results' = all_detailed_results
    /\ pc' \notin PoolPcs =>
          AllCollected /\ all_detailed_results' = all_detailed_results

\* C5: in a pool every task yields exactly one record: each future that
\* as_completed hands over appends one record for its own link (an NG record
\* with the exception's message when the task raised) and leaves the records
\* already there as they are, no other step of the pool changes the list,
\* and the pool is left only when every future has been handed over.
C5_OneRecordPerTask == [][ PoolStep ]_vars

\* a pool in which a task raised and its sibling returned, both with a record
C5_Witness ==
    /\ pc \in PoolPcs
    /\ Len(all_detailed_results) >= 2
    /\ \E f, g \in DOMAIN futures :
         /\ futures[f].state = "collected" /\ futures[f].raised
         /\ futures[g].state = "collected" /\ ~futures[g].raised
         /\ \E i, j \in DOMAIN all_detailed_results :
              /\ all_detailed_results[i].affiliate_link = futures[f].link
              /\ all_detailed_results[i].error_message = UnexpectedMsg
              /\ all_detailed_results[j].affiliate_link = futures[g].link
              /\ all_detailed_results[j].error_message # UnexpectedMsg

WellFormedInput ==
    /\ event = "ok"
    /\ \A i \in DOMAIN auto_urls : auto_urls[i].dict
    /\ \A i \in DOMAIN manual_urls : manual_urls[i].dict

\* C6: page-fetch failures, link failures and exceptions in tasks never
\* reach the run status: a run on a well-formed manifest whose rows can be
\* sorted and whose report write does not fail has gone through every target
\* and every manual entry, has written the report and returns 200; a run
\* that does not return 200 reports an input error, the sort's TypeError or
\* the failed report write.
C6_FailuresAbsorbed ==
    pc = "returned" =>
        /\ ( /\ WellFormedInput
             /\ ~SortRaises(all_detailed_results)
             /\ report_state # "failed" )
           => /\ response.statusCode = 200
              /\ report_state = "written"
              /\ t > Len(auto_urls)
              /\ \A i \in DOMAIN manual_urls :
                    ( /\ manual_urls[i].affiliate_link # NoneUrl
                      /\ ~Excluded(manual_urls[i].affiliate_link) )
                    => \E r \in Rows :
                         /\ r.affiliate_link = manual_urls[i].affiliate_link
                         /\ r.blog_article_url = manual_urls[i].blog_article_url
        /\ response.statusCode # 200 =>
              response.error \in {"no S3 records in the event", "JSONDecodeError",
                                  "AttributeError", "TypeError", "S3 put_object failed"}

\* a run that returns 200 with a task's exception and a failed link in its
\* report, after a page fetch that failed
C6_Witness ==
    /\ pc = "returned"
    /\ response.statusCode = 200
    /\ \E r \in Rows : r.error_message = UnexpectedMsg
    /\ \E r \in Rows : r.error_message = TimeoutMsg
    /\ page_fetches = MaxFetches
    /\ Len(report) = 2

InvalidInput ==
    \/ event # "ok"
    \/ \E i \in DOMAIN auto_urls : ~auto_urls[i].dict
    \/ \E i \in DOMAIN manual_urls : ~manual_urls[i].dict

\* C7: on invalid input (no Records, a malformed manifest, a malformed entry
\* anywhere in auto_url_list or manual_url_list) the run returns a failure
\* result and has issued no page fetch and no link verification request.
C7_AbortBeforeCrawl ==
    InvalidInput =>
        /\ page_fetches = 0 /\ link_checks = 0
        /\ pc = "returned" => response.statusCode \in {400, 500}

\* C8: once the report is written the run returns 200, whether the write of
\* the completion flag succeeds or fails; a failed report write makes the run
\* return 500.
C8_FlagFailureIgnored ==
    pc = "returned" =>
        /\ report_state = "written" => response.statusCode = 200
        /\ report_state = "failed" => response.statusCode = 500

\* the report is written, the flag write failed, the run returns 200
C8_Witness ==
    /\ pc = "returned"
    /\ report_state = "written"
    /\ flag_state = "failed"
    /\ response.statusCode = 200

IsSortedRows(rows) ==
    \A i, j \in DOMAIN rows : i < j => ~KeyLess(KeyOf(rows[j]), KeyOf(rows[i]))

Count(rows, r) == Cardinality({i \in DOMAIN rows : rows[i] = r})

SameRecords(a, b) ==
    /\ Len(a) = Len(b)
    /\ \A i \in DOMAIN a : Count(a, a[i]) = Count(b, a[i])

ReportWriteStep ==
    (report_state # "written" /\ report_state' = "written") =>
    /\ IsSortedRows(report')
    /\ SameRecords(report', all_detailed_results)

\* C9: the rows of a report that is written are in non-decreasing order of
\* (spreadsheet_link, blog_article_url, affiliate_link), and they are the
\* records of the result list as it was before the write, each exactly once.
C9_ReportSorted == [][ ReportWriteStep ]_vars

\* a written report that begins with the record of a manual entry, which was
\* appended after the records of the crawled blog that follow it
C9_Witness ==
    /\ report_state = "written"
    /\ Len(report) >= 3
    /\ report[1].spreadsheet_link = Sheet
    /\ report[2].spreadsheet_link = HatenaBlog
    /\ \E i, j \in DOMAIN report : report[i].status = "OK" /\ report[j].status = "ERROR"

\* a step that leaves a page fetch (successful or not) of a blog page or article
AfterPageFetch ==
    /\ pc \in {"h_fetch", "l_article_fetch"}
    /\ pc' # pc

SyntheticAppended ==
    all_detailed_results'
        = Append(all_detailed_results, SyntheticRow(blog_url, current_page_url))

SyntheticAsClaimed ==
    AfterPageFetch =>
    ( SyntheticAppended <=>
        /\ html_content'.marker
        /\ extract_ad_links(html_content', current_page_url).links = {} )

\* C10 as claimed: a fetched page gets a synthetic NG record iff the
\* extractor found the marker and its candidate set is empty.
C10_SyntheticIffNoCandidate == [][ SyntheticAsClaimed ]_vars

SyntheticAsAmended ==
    AfterPageFetch =>
    /\ SyntheticAppended <=>
         /\ html_content'.marker
         /\ \A l \in extract_ad_links(html_content', current_page_url).links :
               \E ex_str \in exclude_strings : Contains(l, ex_str)
    /\ ~SyntheticAppended => all_detailed_results' = all_detailed_results

\* C10 as amended: a fetched page gets a synthetic NG record iff the
\* extractor found the marker and every candidate it returned (if any)
\* contains a string of the exclude list; with the marker absent, or with a
\* candidate that passes the exclude filter, no record is synthesized.
C10_SyntheticIffNoneLeft == [][ SyntheticAsAmended ]_vars

\* a page whose only candidate is excluded: the synthetic record is there
C10_Witness ==
    /\ pc = "h_pool"
    /\ html_content.marker
    /\ html_content.links # {}
    /\ futures = <<>>
    /\ all_detailed_results # <<>>
    /\ Last(all_detailed_results) = SyntheticRow(blog_url, current_page_url)

\* ---------------------------------------------------------- claims C11-C20
ArticlePcs == {"l_articles", "l_article_fetch", "l_pool"}

NothingMoreOfFailedTarget ==
    fetch_failed => /\ page_fetches' = page_fetches
                    /\ all_detailed_results' = all_detailed_results

\* C11 as claimed: once a page fetch of a target has failed, no further page
\* of that target is fetched and no further record is produced for it.
C11_FailureEndsTarget == [][ NothingMoreOfFailedTarget ]_vars

\* C11 as amended: a failed page fetch ends the pagination it occurs in and
\* nothing else.  The crawl of a Hatena target is left at once; in a Livedoor
\* target the run is, after a failed fetch, in the loop over the articles
\* collected so far (never back in the list pagination), where a failed
\* article fetch skips that article only; and the manual entries and the
\* report are reached only after the loop over auto_url_list has gone
\* through every target.
C11_FailureEndsPagination ==
    /\ fetch_failed => /\ pc \in ArticlePcs
                       /\ t <= Len(auto_urls)
                       /\ ~is_hatena(blog_url) /\ is_livedoor(blog_url)
    /\ pc \in {"m_pool", "report", "flag"} => t = Len(auto_urls) + 1
    /\ (pc = "returned" /\ response.statusCode = 200) => t = Len(auto_urls) + 1

\* a list page of a Livedoor target could not be fetched, and an article
\* collected before is about to be fetched
C11_Witness ==
    /\ fetch_failed
    /\ pc = "l_article_fetch"
    /\ current_page_url \in all_article_urls
    /\ page_fetches >= 2

\* C12: when the fetch of a link ends in a 4xx/5xx answer that is not
\* retried (404), check_link_status returns that answer's status code, the
\* answer's URL as final_url and an error message, and the record is NG with
\* that status code in status_code and a reason that names the status code.
C12_HttpErrorCarriesStatus ==
    ( /\ lk_pc = "classified"
      /\ lk_site.hops < MAX_META_REFRESH_REDIRECTS
      /\ lk_site.terminal.kind = "error_status"
      /\ lk_site.terminal.status \notin HTTP_RETRY_STATUS_CODES )
    => /\ lk_result.status_code = lk_site.terminal.status
       /\ lk_result.final_url = lk_site.terminal.url
       /\ Truthy(lk_result.error_message)
       /\ lk_row.status = "ERROR"
       /\ lk_row.status_code = lk_site.terminal.status
       /\ lk_row.error_message = HttpErrorMsg(lk_site.terminal.status)

BaseNg(check_result) ==
    \/ check_result.status_code = NoneCode
    \/ check_result.status_code < 200
    \/ check_result.status_code >= 400
    \/ check_result.error_message \notin {NoneMsg, ""}

\* C13: a record has a reason (error_message) iff it is NG.  A record that
\* is NG by the base rule carries the outcome's error message or, without
\* one, the status-code message; a record OK by the base rule whose final
\* host is the blocked domain carries the domain-block reason, also when the
\* platform-escape overlay applies as well; an OK record has no reason.  The
\* records made without an outcome (the synthetic record of a page, the
\* record of a task that raised) are NG and carry a reason.
C13_ReasonIffNg ==
    /\ lk_pc = "classified" =>
         /\ lk_row.status = "ERROR" <=> lk_row.error_message # NoneMsg
         /\ lk_row.status = "OK" => lk_row.error_message = NoneMsg
         /\ BaseNg(lk_result) =>
              lk_row.error_message =
                 IF lk_result.error_message \notin {NoneMsg, ""}
                 THEN lk_result.error_message
                 ELSE StatusCodeMsg(lk_result.status_code)
         /\ (~BaseNg(lk_result) /\ Netloc(lk_result.final_url) = BlockedDomain)
              => lk_row.error_message = DomainBlockMsg
    /\ \A u \in {lk_item.spreadsheet_link, lk_item.blog_article_url} :
         /\ SyntheticRow(u, lk_item.blog_article_url).status = "ERROR"
         /\ SyntheticRow(u, lk_item.blog_article_url).error_message = NoAdLinkMsg
         /\ ExceptionRow(u, u, lk_item.affiliate_link, UnexpectedMsg).status = "ERROR"
         /\ ExceptionRow(u, u, lk_item.affiliate_link, UnexpectedMsg).error_message
              = UnexpectedMsg

\* both overlays apply to an outcome that is OK by the base rule: the record
\* carries the domain-block reason
C13_Witness ==
    /\ lk_pc = "classified"
    /\ ~BaseNg(lk_result)
    /\ Netloc(lk_result.final_url) = BlockedDomain
    /\ Contains(lk_result.final_url, "hatena")
    /\ Netloc(lk_result.final_url) # Netloc(LinkOrigin)
    /\ lk_row.status = "ERROR"
    /\ lk_row.error_message = DomainBlockMsg

\* C14: at every point of a run the number of check_link_status calls that
\* are executing is at most the pool size the run is configured with (and so
\* at most MAX_WORKERS), in the pool of every page and in the pool of the
\* manual list; outside the with blocks no call is executing.
C14_PoolBound ==
    /\ Cardinality(Running) <= max_workers
    /\ max_workers <= MAX_WORKERS
    /\ pc \notin PoolPcs => Running = {}

\* the pool of a page is full while a task of the page is still queued
C14_Witness ==
    /\ pc = "h_pool"
    /\ Cardinality(Running) = max_workers
    /\ \E f \in DOMAIN futures : futures[f].state = "pending"

\* the records of the result list that come from a task
TaskRecords ==
    {i \in DOMAIN all_detailed_results :
        all_detailed_results[i].error_message # NoAdLinkMsg}

\* C15: page fetches and link checks never overlap.  Outside the with
\* blocks (so whenever a page is fetched, the next page is looked up or the
\* run sleeps) no task exists, and every check_link_status call started so
\* far has its record in the result list; the tasks in flight in the pool of
\* a page are all for candidates of that one page.
C15_PageBarrier ==
    /\ pc \notin PoolPcs =>
         /\ futures = <<>>
         /\ Cardinality(TaskRecords) = link_checks
    /\ pc \in {"h_pool", "l_pool"} =>
         \A f \in DOMAIN futures :
            /\ futures[f].link \in FilterLinks(html_content.links)
            /\ futures[f].state # "pending" =>
                 Cardinality(TaskRecords)
                   + Cardinality({g \in DOMAIN futures :
                                    futures[g].state \in {"running", "done"}})
                   = link_checks

\* the second page of a blog is about to be fetched: the checks of the
\* first page are over and recorded
C15_Witness ==
    /\ pc = "h_fetch"
    /\ fetched
    /\ link_checks >= 1
    /\ Cardinality(TaskRecords) = link_checks
    /\ futures = <<>>

FetchPcs == {"h_fetch", "l_list_fetch", "l_article_fetch"}

\* C16: a page fetch of a target is preceded by exactly one delay since the
\* previous page fetch of that target (list pages and articles included) and
\* by none when it is the first; a delay is taken only with a next page at
\* hand, so none has been taken when the target is left or while the links
\* of a page are checked.
C16_OneDelayBetweenFetches ==
    /\ pc \in FetchPcs => delays = (IF fetched THEN 1 ELSE 0)
    /\ pc \in FetchPcs \cup {"h_sleep", "l_list_sleep"} => current_page_url # NoneUrl
    /\ pc \notin FetchPcs => delays = 0

\* the first article of a Livedoor blog is about to be fetched, one delay
\* after the last list page
C16_Witness ==
    /\ pc = "l_article_fetch"
    /\ fetched
    /\ delays = 1
    /\ page_fetches >= 1

\* the chain of next links from page p comes back to a page of `seen` or to
\* a page it passed
RECURSIVE Revisits(_, _)
Revisits(p, seen) ==
    IF p = 0 THEN FALSE
    ELSE IF p \in seen THEN TRUE
    ELSE Revisits(site_next[p], seen \cup {p})

\* C17: with every page served, the crawl of a target ends and the run
\* returns iff the chain of next links from the target's first page is
\* finite and revisits no page; on a chain that comes back to a visited page
\* the pagination loop of the target (Hatena or Livedoor) is never left and
\* the run never returns.
C17_TerminatesIffNoRevisit ==
    /\ ~Revisits(1, {}) => <>(pc = "returned" /\ t = 2)
    /\ [](Revisits(1, {}) =>
            /\ t = 1
            /\ pc \in {"targets", "h_fetch", "h_pool", "h_sleep",
                       "l_list_fetch", "l_list_sleep"})

\* the walk is back at the first page of the blog after it has fetched pages
C17_Witness ==
    /\ Revisits(1, {})
    /\ pc \in {"h_fetch", "l_list_fetch"}
    /\ fetched
    /\ current_page_url = blog_url

\* C18: no link that contains a string of the exclude list is handed to
\* check_link_status or is the checked link of a record made by a task, for
\* the candidates of a page and for the manual entries alike.
C18_ExcludedNeverChecked ==
    /\ \A f \in DOMAIN futures :
          \A ex_str \in exclude_strings : ~Contains(futures[f].link, ex_str)
    /\ \A i \in TaskRecords :
          \A ex_str \in exclude_strings :
             ~Contains(all_detailed_results[i].affiliate_link, ex_str)

\* the manual list holds an excluded entry and an entry that is checked:
\* only the latter has a task and a record
C18_Witness ==
    /\ pc = "m_pool"
    /\ \E i \in DOMAIN manual_urls :
          /\ manual_urls[i].dict
          /\ Contains(manual_urls[i].affiliate_link, "tracking")
    /\ Len(futures) = 1
    /\ Cardinality(TaskRecords) = 1

\* C19: no two NG records of a run carry the same FailureKey
\* (blog_article_url, affiliate_link), whatever the manifest lists.
C19_FailureKeyUnique ==
    \A i, j \in DOMAIN all_detailed_results :
       ( /\ i # j
         /\ all_detailed_results[i].status = "ERROR"
         /\ all_detailed_results[j].status = "ERROR" )
       => FailureKey(all_detailed_results[i]) # FailureKey(all_detailed_results[j])


\* ------------------------------------- extract_ad_links on one document
\* longest soup.body modelled, in nodes
MaxDocLen == 4

\* the nodes of soup.body that extract_ad_links tells apart: the string
\* matching the disclosure marker, an element that is no anchor, and anchors
\* by their href
Nodes == {"notice", "div", "a", "a_empty", "a_javascript", "a_self",
          "a_self_fragment", "a_aff1", "a_aff2", "a_aff1_fragment"}

\* the page extract_ad_links is called for (base_url)
ExtractBase == Url(HatenaBlogHost, "/entry", 1)

\* next_element.name == 'a' and next_element.has_attr('href')
IsAnchorWithHref(node) == node \notin {"notice", "div", "a"}

\* href and not href.lower().startswith('javascript:')
HrefUsable(node) == node \notin {"a_empty", "a_javascript"}

\* urllib.parse.urljoin(base_url, href), with the fragment kept apart
urljoin(base_url, node) ==
    CASE node = "a_self"          -> [url |-> base_url, fragment |-> ""]
      [] node = "a_self_fragment" -> [url |-> base_url, fragment |-> "top"]
      [] node = "a_aff1"          -> [url |-> Url(ShopHost, "/aff", 1), fragment |-> ""]
      [] node = "a_aff2"          -> [url |-> Url(ShopHost, "/aff", 2), fragment |-> ""]
      [] node = "a_aff1_fragment" -> [url |-> Url(ShopHost, "/aff", 1),
                                      fragment |-> "top"]

\* a loop that goes on to the next anchor when the anchor is the page itself
RECURSIVE FindAllNextFallsThrough(_, _, _)
FindAllNextFallsThrough(doc, j, base_url) ==
    IF j > Len(doc) THEN {}
    ELSE IF /\ IsAnchorWithHref(doc[j])
            /\ HrefUsable(doc[j])
            /\ urljoin(base_url, doc[j]).url # base_url
         THEN {urljoin(base_url, doc[j])}
         ELSE FindAllNextFallsThrough(doc, j + 1, base_url)

\* for next_element in notice_text.find_all_next(): ... break, from node j on:
\* what the loop adds to links
RECURSIVE FindAllNext(_, _, _)
FindAllNext(doc, j, base_url) ==
    IF j > Len(doc) THEN {}
    ELSE IF IsAnchorWithHref(doc[j]) /\ HrefUsable(doc[j])
         THEN IF urljoin(base_url, doc[j]).url # base_url
              THEN {urljoin(base_url, doc[j])}
              ELSE {}
         ELSE FindAllNext(doc, j + 1, base_url)

\* extract_ad_links(html_content, base_url) for a parsed body
ExtractAdLinks(doc, base_url) ==
    LET ad_notice_texts == {i \in DOMAIN doc : doc[i] = "notice"}
        links == UNION {FindAllNext(doc, i + 1, base_url) : i \in ad_notice_texts}
    IN  IF ad_notice_texts = {} THEN NoneLinks
        ELSE SomeLinks({link.url : link \in {l \in links : l.fragment = ""}})

ExtractInit ==
    /\ ex_pc = "start"
    /\ ex_doc \in SeqsUpTo(Nodes, MaxDocLen)
    /\ ex_links = NoneLinks
    /\ lk_pc = "off"
    /\ lk_site = [hops |-> 0, terminal |-> [kind |-> "timeout", status |-> NoneCode,
                                            url |-> NoneUrl, words |-> {}]]
    /\ lk_ng_words = <<>>
    /\ lk_item = [kind |-> "auto", spreadsheet_link |-> NoneUrl,
                  blog_article_url |-> NoneUrl, affiliate_link |-> NoneUrl]
    /\ lk_result = NoResult
    /\ lk_row = NoRow
    /\ pc = "off"
    /\ event = "ok"
    /\ auto_urls = <<>>
    /\ manual_urls = <<>>
    /\ previous_error_details = {}
    /\ max_workers = MAX_WORKERS
    /\ site_next = [p \in 1..MaxPages |-> 0]
    /\ t = 1
    /\ current_page_url = NoneUrl
    /\ html_content = NoHtml
    /\ all_article_urls = {}
    /\ articles_left = {}
    /\ futures = <<>>
    /\ all_detailed_results = <<>>
    /\ page_fetches = 0
    /\ link_checks = 0
    /\ fetch_failed = FALSE
    /\ fetched = FALSE
    /\ delays = 0
    /\ report = <<>>
    /\ report_state = "none"
    /\ flag_state = "none"
    /\ response = NoResponse

\* one call extract_ad_links(html_content, base_url)
ExtractCall ==
    /\ ex_pc = "start"
    /\ ex_links' = ExtractAdLinks(ex_doc, ExtractBase)
    /\ ex_pc' = "extracted"
    /\ UNCHANGED <<ex_doc, lk_vars, run_vars>>

ExtractNext == ExtractCall

ExtractSpec == ExtractInit /\ [][ExtractNext]_vars

\* ------------------------------------------------------------ claim C20
\* the marker occurrences of the document
Occurrences == {i \in DOMAIN ex_doc : ex_doc[i] = "notice"}

\* an anchor with a non-empty, non-javascript href
Qualifying(j) ==
    ex_doc[j] \in {"a_self", "a_self_fragment", "a_aff1", "a_aff2", "a_aff1_fragment"}

\* the first qualifying anchor after occurrence i, 0 when there is none
FirstQualifying(i) ==
    IF \E j \in DOMAIN ex_doc : j > i /\ Qualifying(j)
    THEN CHOOSE j \in DOMAIN ex_doc :
            /\ j > i /\ Qualifying(j)
            /\ \A k \in DOMAIN ex_doc : (k > i /\ Qualifying(k)) => j <= k
    ELSE 0

\* the occurrences whose first qualifying anchor leads to link
OccurrencesOf(link) ==
    {i \in Occurrences : /\ FirstQualifying(i) # 0
                         /\ urljoin(ExtractBase, ex_doc[FirstQualifying(i)]).url = link}

\* C20: every candidate extract_ad_links returns is the target of the first
\* anchor with a non-empty, non-javascript href after some marker occurrence,
\* so an occurrence contributes at most one candidate; an occurrence whose
\* first such anchor resolves to the page itself contributes none, later
\* anchors notwithstanding; a first anchor to another page without a fragment
\* is a candidate; the candidates are no more than the occurrences and none
\* is the page URL.
C20_FirstAnchorOnly ==
    ex_pc = "extracted" =>
       /\ ex_links.none <=> Occurrences = {}
       /\ \A link \in ex_links.links : OccurrencesOf(link) # {}
       /\ \A i \in Occurrences :
             ( /\ FirstQualifying(i) # 0
               /\ urljoin(ExtractBase, ex_doc[FirstQualifying(i)]).url # ExtractBase
               /\ urljoin(ExtractBase, ex_doc[FirstQualifying(i)]).fragment = "" )
             => urljoin(ExtractBase, ex_doc[FirstQualifying(i)]).url \in ex_links.links
       /\ Cardinality(ex_links.links) <= Cardinality(Occurrences)
       /\ ExtractBase \notin ex_links.links

\* a marker whose first qualifying anchor is the page itself, with an anchor
\* to a shop after it: nothing is extracted
C20_Witness ==
    /\ ex_pc = "extracted"
    /\ ex_doc = <<"notice", "a_javascript", "a_self_fragment", "a_aff1">>
    /\ ~ex_links.none
    /\ ex_links.links = {}


\* ------------------------------------------------------------ claim C21
\* the resolved URL of the first qualifying anchor after occurrence i
FirstResolved(i) == urljoin(ExtractBase, ex_doc[FirstQualifying(i)])

\* C21: every candidate returned is fragment-free and the target of a
\* qualifying (non-empty, non-javascript) anchor, and the first qualifying
\* anchor of every marker occurrence that does not resolve to the page
\* itself yields its URL without the fragment as a candidate, whether or not
\* the href carries a fragment, so that anchors differing only in their
\* fragment yield one candidate and none is lost.
C21_FragmentStripped ==
    ex_pc = "extracted" =>
       /\ \A link \in ex_links.links : OccurrencesOf(link) # {}
       /\ \A i \in Occurrences :
             (FirstQualifying(i) # 0 /\ FirstResolved(i).url # ExtractBase)
             => FirstResolved(i).url \in ex_links.links


\* ------------------------------------------------------------ claim C22
\* C22: the completion flag is attempted and written only after the report
\* of the run was written: in no state is lambda_completion_status.json
\* written, or about to be written, while linkcheck_result.csv is missing or
\* its put_object failed.
C22_FlagOnlyAfterReport ==
    /\ pc = "flag" => report_state = "written"
    /\ flag_state # "none" => report_state = "written"

\* a run that checked a link, wrote the report and then the flag
C22_Witness ==
    /\ pc = "returned"
    /\ report_state = "written"
    /\ flag_state = "written"
    /\ report # <<>>
    /\ response.statusCode = 200

====
